---- MODULE Spec2Model ----
(***************************************************************************)
(* A model of manuals-cli: one invocation of the command-line client       *)
(* (cobra argument validation, PersistentPreRunE, the command handler, the *)
(* API client's get / DownloadDocument, main's exit code), and the pure    *)
(* helpers Truncate, FormatSize and the query-string construction of       *)
(* ListDevices / ListDocuments.                                            *)
(*                                                                         *)
(* Strings whose characters the code indexes or slices are sequences of    *)
(* one-character strings.  A response body is a sequence of lexical        *)
(* symbols: "{", "}", ":", a key such as "error", a string literal such as *)
(* "not found" (the symbol stands for the quoted literal, its text for the *)
(* decoded value), or a raw character such as "o".                         *)
(***************************************************************************)
EXTENDS Integers, Sequences, FiniteSets, TLC

VARIABLES
    cmd,          \* the command invoked
    nargs,        \* number of positional arguments given
    apiKey,       \* global flag --api-key            (output.go:133)
    outputFormat, \* global flag --output / -o        (output.go:134)
    pc,           \* position of the invocation
    cfg,          \* global cfg  *config.Config       (output.go:137)
    apiClient,    \* global apiClient *client.Client  (output.go:138)
    out,          \* global out *output.Writer        (output.go:139)
    ci,           \* index of the client call the handler is at
    requests,     \* HTTP requests handed to httpClient.Do so far
    buildFailed,  \* http.NewRequest failed in this invocation
    resp,         \* the response the current client call received
    openBodies,   \* response bodies opened and not yet closed
    openFiles,    \* local file handles opened and not yet closed
    everOpened,   \* resources opened at any time in this invocation
    opErr,        \* error returned by the last client operation
    result,       \* value decoded by the last successful get
    filename,     \* DownloadDocument's suggested filename
    err,          \* error returned by the command (RunE / PreRunE / cobra)
    panicked,     \* a runtime panic ended the process
    exitCode,     \* process exit status (-1 while running)
    stdout,       \* what the command printed, as a sequence of tags
    shown,        \* [ids, checksum, hint]: the values inside the printed lines
    dest,         \* [before, now]: the destination file of a download
    arg,          \* input of the pure function under check
    ret           \* its result

vars == <<cmd, nargs, apiKey, outputFormat, pc, cfg, apiClient, out, ci,
          requests, buildFailed, resp, openBodies, openFiles, everOpened,
          opErr, result, filename, err, panicked, exitCode, stdout, shown, dest,
          arg, ret>>

cliVars == <<cmd, nargs, apiKey, outputFormat, pc, cfg, apiClient, out, ci,
             requests, buildFailed, resp, openBodies, openFiles, everOpened,
             opErr, result, filename, err, panicked, exitCode, stdout, shown, dest>>

(***************************************************************************)
(* Bounds of the model.                                                    *)
(***************************************************************************)
MaxArgs == 2        \* positional arguments tried: 0..MaxArgs
MaxItems == 2       \* items in a decoded page
MaxTail == 3        \* characters of a Content-Disposition header after its first 21
MaxStrLen == 5      \* length of the strings given to Truncate
MaxTruncLen == 6    \* maxLen values given to Truncate: 0..MaxTruncLen

(***************************************************************************)
(* Program constants.                                                      *)
(***************************************************************************)
StatusOK == 200
PrefixLen == 21     \* len("attachment; filename=")
IDColumn == 8       \* d.ID[:8]
ChecksumShown == 16 \* doc.Checksum[:16]
unit == 1024

Commands == {"search", "devices list", "devices get", "documents list",
             "documents get", "documents download", "version"}

Min(a, b) == IF a < b THEN a ELSE b


(***************************************************************************)
(* Errors.  The code builds every error with fmt.Errorf; kind names the    *)
(* class of the failure, status and msg what an "API error (%d): %s"       *)
(* carries.                                                                *)
(***************************************************************************)
NoErr == [kind |-> "nil", status |-> 0, msg |-> <<>>]
Err(kind) == [kind |-> kind, status |-> 0, msg |-> <<>>]
APIError(status, msg) == [kind |-> "APIError", status |-> status, msg |-> msg]

(***************************************************************************)
(* Decoded results: ids are the lengths of the identifiers of the items    *)
(* (one item for a get), checksum the length of a document's checksum.     *)
(***************************************************************************)
ZeroResult == [ids |-> <<>>, checksum |-> 0, total |-> 0, offset |-> 0]
NoResp == [present |-> FALSE, status |-> 0, body |-> <<>>, cd |-> <<>>,
           payload |-> ZeroResult]

IdLens == {3, 8, 12}
ChecksumLens == {0, 15, 16, 64}

SeqsUpTo(S, n) == UNION {[1..k -> S] : k \in 0..n}

CallsTwice(c) ==
    CASE c = "search" -> <<"Search">>
      [] c = "devices list" -> <<"ListDevices", "ListDevices">>
      [] c = "devices get" -> <<"GetDevice">>
      [] c = "documents list" -> <<"ListDocuments">>
      [] c = "documents get" -> <<"GetDocument">>
      [] c = "documents download" -> <<"GetDocument", "DownloadDocument">>
      [] OTHER -> <<>>

\* The client operations each command handler calls, in order.
Calls(c) ==
    CASE c = "search" -> <<"Search">>
      [] c = "devices list" -> <<"ListDevices">>
      [] c = "devices get" -> <<"GetDevice">>
      [] c = "documents list" -> <<"ListDocuments">>
      [] c = "documents get" -> <<"GetDocument">>
      [] c = "documents download" -> <<"GetDocument", "DownloadDocument">>
      [] OTHER -> <<>>

\* What a server may send as the decoded content of a 200 response.
Payloads(op) ==
    CASE op \in {"Search", "ListDevices", "ListDocuments"} ->
           {[ids |-> i, checksum |-> 0, total |-> t, offset |-> o] :
              i \in SeqsUpTo(IdLens, MaxItems), t \in 0..(MaxItems + 1), o \in 0..1}
      [] op = "GetDevice" ->
           {[ids |-> <<i>>, checksum |-> 0, total |-> 0, offset |-> 0] : i \in IdLens}
      [] OTHER ->
           {[ids |-> <<8>>, checksum |-> k, total |-> 0, offset |-> 0] :
              k \in ChecksumLens}

(***************************************************************************)
(* Response bodies and encoding/json's Decoder.                            *)
(***************************************************************************)
Msgs == {"not found", "denied"}
ResultBody == <<"{", "data", ":", "[...]", "}">>
ErrorBody(m) == <<"{", "error", ":", m, "}">>
Oops == <<"o", "o", "p", "s">>
Bodies == {ErrorBody(m) : m \in Msgs} \cup
          { <<>>, <<"{", "}">>, Oops, <<"{", "error", ":", "o">>,
            <<"{", "error", ":">>, <<"<", "h", ">", "o">> }

Keys == {"error", "data"}
Literals == Msgs \cup {"[...]"}

\* The symbol the scanner accepts at position i of a one-member object.
Expect(i, sym) ==
    CASE i = 1 -> sym = "{"
      [] i = 2 -> sym \in Keys \cup {"}"}
      [] i = 3 -> sym = ":"
      [] i = 4 -> sym \in Literals
      [] i = 5 -> sym = "}"
      [] OTHER -> FALSE

\* Scan one JSON value from position i: ok with the position of its last
\* symbol, or not ok with the position of the offending symbol
\* (Len(b) + 1: the input ended inside the value).
RECURSIVE Scan(_, _)
Scan(b, i) ==
    IF i > Len(b) THEN [ok |-> FALSE, pos |-> Len(b) + 1]
    ELSE IF ~Expect(i, b[i]) THEN [ok |-> FALSE, pos |-> i]
    ELSE IF b[i] = "}" THEN [ok |-> TRUE, pos |-> i]
    ELSE Scan(b, i + 1)

\* The value of the member named key of the object scanned from b, as text
\* ("" when the object has no such member: the field keeps its zero value).
Field(b, key) == IF Len(b) >= 4 /\ b[2] = key THEN <<b[4]>> ELSE <<>>

\* How many symbols the Decoder may have taken from the reader when Decode
\* returns: it reads ahead in chunks, so at least up to the symbol that
\* settled the outcome and at most the whole body.
Consumed(b) ==
    LET sc == Scan(b, 1) IN Min(sc.pos, Len(b))..Len(b)

\* io.ReadAll on a reader from which the first k symbols were taken.
ReadAll(b, k) == SubSeq(b, k + 1, Len(b))

(***************************************************************************)
(* Content-Disposition headers: none, short ones, and every tail of up to  *)
(* MaxTail characters after a 21-character start.                          *)
(***************************************************************************)
AttachmentPrefix == <<"a","t","t","a","c","h","m","e","n","t",";"," ",
                      "f","i","l","e","n","a","m","e","=">>
InlinePrefix == <<"i","n","l","i","n","e",";"," ","f","i","l","e","n","a","m","e",
                  "*","=","U","T","F">>
TailChars == {"\"", "x"}
Headers == { <<>>, <<"i","n","l","i","n","e">>, AttachmentPrefix } \cup
           { p \o t : p \in {AttachmentPrefix, InlinePrefix},
                      t \in SeqsUpTo(TailChars, MaxTail) }


(***************************************************************************)
(* Configuration, client and renderer construction.                        *)
(***************************************************************************)
FlagKeys == {"", "flag-key"}
FileKeys == {"", "file-key"}
FlagFormats == {"", "table", "json", "text", "JSON", "Table"}
FileFormats == {"table", "text", "xml"}

NoConfig == [loaded |-> FALSE, APIKey |-> "", OutputFormat |-> ""]
NoClient == [built |-> FALSE, apiKey |-> ""]
NoWriter == [built |-> FALSE, format |-> ""]

\* config.Load: what the file and the environment give.
Load(fileKey, fileFormat) ==
    [loaded |-> TRUE, APIKey |-> fileKey, OutputFormat |-> fileFormat]

\* The flag overrides of PersistentPreRunE.
Override(c, keyFlag, formatFlag) ==
    [c EXCEPT !.APIKey = IF keyFlag # "" THEN keyFlag ELSE @,
              !.OutputFormat = IF formatFlag # "" THEN formatFlag ELSE @]

ValidateAlways(c) == NoErr

Validate(c) == IF c.APIKey = "" THEN Err("ValidationError") ELSE NoErr

ClientNew(key) == [built |-> TRUE, apiKey |-> key]

\* strings.ToLower on the format strings of the model.
ToLower(s) ==
    CASE s = "JSON" -> "json"
      [] s = "Table" -> "table"
      [] OTHER -> s

\* output.New
OutputNew(format) ==
    LET f == ToLower(format) IN
    [built |-> TRUE, format |-> IF f \in {"json", "text"} THEN f ELSE "table"]

IsJSON(w) == w.format = "json"

(***************************************************************************)
(* cobra's positional-argument validation, from each command's Args.       *)
(***************************************************************************)
ArgsOK(c, n) ==
    CASE c = "search" -> n >= 1
      [] c \in {"devices get", "documents get", "documents download"} -> n = 1
      [] OTHER -> TRUE

(***************************************************************************)
(* The client: status check, error decoding, deferred close.               *)
(***************************************************************************)
Statuses == {200, 201, 204, 404, 500}

IsSuccess(status) == status = StatusOK

\* The messages get may put in its API error for an error body.
ErrorMessages(body) ==
    IF Scan(body, 1).ok THEN {Field(body, "error")}
    ELSE {ReadAll(body, k) : k \in Consumed(body)}

KeepBody(bodies, i) == bodies

\* resp.Body.Close() / body.Close()
CloseBody(bodies, i) == bodies \ {i}

\* file.Close()
CloseFile(files) == files \ {"file"}

\* What the server may answer to a call of op.
Responses(op) ==
    IF op = "DownloadDocument"
    THEN {[present |-> TRUE, status |-> s, body |-> b, cd |-> <<>>,
           payload |-> ZeroResult] : s \in Statuses \ {StatusOK}, b \in Bodies}
         \cup
         {[present |-> TRUE, status |-> StatusOK, body |-> <<"%PDF">>, cd |-> h,
           payload |-> ZeroResult] : h \in Headers}
    ELSE {[present |-> TRUE, status |-> s, body |-> b, cd |-> <<>>,
           payload |-> ZeroResult] : s \in Statuses, b \in Bodies \cup {ResultBody}}
         \cup
         {[present |-> TRUE, status |-> StatusOK, body |-> ResultBody, cd |-> <<>>,
           payload |-> p] : p \in Payloads(op)}

\* The value json.Decode stores for a body that scanned.
Decoded(r) == IF r.body = ResultBody THEN r.payload ELSE ZeroResult

\* The filename DownloadDocument takes from a Content-Disposition header:
\* panic when the slice expression filename[1 : len(filename)-1] is out of range.
ParseDisposition(h) ==
    IF h # <<>> /\ Len(h) > PrefixLen
    THEN LET f == SubSeq(h, PrefixLen + 1, Len(h)) IN
         IF 1 > Len(f) - 1 THEN [panic |-> TRUE, name |-> <<>>]
         ELSE [panic |-> FALSE, name |-> SubSeq(f, 2, Len(f) - 1)]
    ELSE [panic |-> FALSE, name |-> <<>>]


(***************************************************************************)
(* Rendering in the command handlers (non-JSON mode).  A slice s[:n] of a  *)
(* string shorter than n panics.                                           *)
(*                                                                         *)
(* Beside its lines a rendering yields what they show: the length of each  *)
(* row's ID cell, the length of the checksum printed before "..." (-1 when *)
(* none is printed) and the N of "Use --offset N" (-1 when no hint is      *)
(* printed).                                                               *)
(***************************************************************************)
NoShown == [ids |-> <<>>, checksum |-> -1, hint |-> -1]

\* s[:n] of every string of lens, given that none of them panics.
Sliced(lens, n) == [i \in DOMAIN lens |-> n]

SlicePanics(lens, n) == \E i \in DOMAIN lens : lens[i] < n

\* search: the part of RunE after the IsJSON branch.
RenderSearch(r, formatFlag) ==
    IF Len(r.ids) = 0
    THEN [panic |-> FALSE, lines |-> <<"No results found.">>, shown |-> NoShown]
    ELSE IF SlicePanics(r.ids, IDColumn)
    THEN [panic |-> TRUE, lines |-> <<"Found">>, shown |-> NoShown]
    ELSE [panic |-> FALSE,
          lines |-> <<"Found", "table">> \o
                    (IF formatFlag # "table" THEN <<"--- Snippets ---">> ELSE <<>>),
          shown |-> [NoShown EXCEPT !.ids = Sliced(r.ids, IDColumn)]]

\* devices list / documents list: the part of RunE after the IsJSON branch.
RenderList(r) ==
    IF Len(r.ids) = 0
    THEN [panic |-> FALSE, lines |-> <<"None found.">>, shown |-> NoShown]
    ELSE IF SlicePanics(r.ids, IDColumn)
    THEN [panic |-> TRUE, lines |-> <<"Showing">>, shown |-> NoShown]
    ELSE [panic |-> FALSE,
          lines |-> <<"Showing", "table">> \o
                    (IF r.total > Len(r.ids) THEN <<"Use --offset">> ELSE <<>>),
          shown |-> [NoShown EXCEPT
                       !.ids = Sliced(r.ids, IDColumn),
                       !.hint = IF r.total > Len(r.ids)
                                THEN r.offset + Len(r.ids) ELSE -1]]

\* devices get
RenderDevice(r) == [panic |-> FALSE, lines |-> <<"Device">>, shown |-> NoShown]

\* documents get: doc.Checksum[:16]
RenderDocument(r) ==
    IF r.checksum < ChecksumShown
    THEN [panic |-> TRUE, lines |-> <<"Document">>, shown |-> NoShown]
    ELSE [panic |-> FALSE, lines |-> <<"Document", "Checksum">>,
          shown |-> [NoShown EXCEPT !.checksum = ChecksumShown]]

RenderText(c, r, formatFlag) ==
    CASE c = "search" -> RenderSearch(r, formatFlag)
      [] c \in {"devices list", "documents list"} -> RenderList(r)
      [] c = "devices get" -> RenderDevice(r)
      [] OTHER -> RenderDocument(r)

\* main: the exit status for the error Execute returned.
ExitStatus(e) == IF e # NoErr THEN 1 ELSE 0

(***************************************************************************)
(* One invocation of the CLI.                                              *)
(***************************************************************************)
PureIdle == arg = <<>> /\ ret = <<>>

Init ==
    /\ cmd \in Commands
    /\ apiKey \in FlagKeys
    /\ outputFormat \in FlagFormats
    /\ nargs = 0
    /\ pc = "start"
    /\ cfg = NoConfig
    /\ apiClient = NoClient
    /\ out = NoWriter
    /\ ci = 1
    /\ requests = 0
    /\ buildFailed = FALSE
    /\ resp = NoResp
    /\ openBodies = {}
    /\ openFiles = {}
    /\ everOpened = [bodies |-> {}, files |-> {}]
    /\ opErr = NoErr
    /\ result = ZeroResult
    /\ filename = <<>>
    /\ err = NoErr
    /\ panicked = FALSE
    /\ exitCode = -1
    /\ stdout = <<>>
    /\ shown = NoShown
    /\ dest = [before |-> "unknown", now |-> "unknown"]
    /\ PureIdle

Op == Calls(cmd)[ci]

\* A runtime panic: the process prints the trace and exits with status 2.
Panic ==
    /\ panicked' = TRUE
    /\ exitCode' = 2
    /\ pc' = "exited"

\* cobra validates the positional arguments before any hook runs.
ValidateArgs ==
    /\ pc = "start"
    /\ \E n \in 0..MaxArgs :
         /\ nargs' = n
         /\ IF ArgsOK(cmd, n)
            THEN pc' = "prerun" /\ err' = err
            ELSE pc' = "returned" /\ err' = Err("ValidationError")
    /\ UNCHANGED <<cmd, apiKey, outputFormat, cfg, apiClient, out, ci, requests,
                   buildFailed, resp, openBodies, openFiles, everOpened, opErr,
                   result, filename, panicked, exitCode, stdout, shown, dest, arg, ret>>

PersistentPreRunE ==
    /\ pc = "prerun"
    /\ IF cmd \in {"version", "help"}
       THEN /\ pc' = "run"
            /\ UNCHANGED <<cfg, apiClient, out, err>>
       ELSE \E loaded \in BOOLEAN, fileKey \in FileKeys, fileFormat \in FileFormats :
              IF ~loaded
              THEN /\ err' = Err("ConfigError")
                   /\ pc' = "returned"
                   /\ UNCHANGED <<cfg, apiClient, out>>
              ELSE LET c == Override(Load(fileKey, fileFormat), apiKey, outputFormat) IN
                   /\ cfg' = c
                   /\ IF Validate(c) # NoErr
                      THEN /\ err' = Validate(c)
                           /\ pc' = "returned"
                           /\ UNCHANGED <<apiClient, out>>
                      ELSE /\ apiClient' = ClientNew(c.APIKey)
                           /\ out' = OutputNew(c.OutputFormat)
                           /\ pc' = "run"
                           /\ err' = err
    /\ UNCHANGED <<cmd, nargs, apiKey, outputFormat, ci, requests, buildFailed,
                   resp, openBodies, openFiles, everOpened, opErr, result,
                   filename, panicked, exitCode, stdout, shown, dest, arg, ret>>

\* versionCmd.Run
VersionRun ==
    /\ pc = "run"
    /\ cmd = "version"
    /\ stdout' = <<"manuals version">>
    /\ pc' = "returned"
    /\ UNCHANGED <<cmd, nargs, apiKey, outputFormat, cfg, apiClient, out, ci,
                   requests, buildFailed, resp, openBodies, openFiles, everOpened,
                   opErr, result, filename, err, panicked, exitCode, shown, dest,
                   arg, ret>>

\* The start of get and of DownloadDocument: http.NewRequest, httpClient.Do.
ClientDo ==
    /\ pc = "run"
    /\ cmd # "version"
    /\ \/ /\ buildFailed' = TRUE
          /\ opErr' = Err("RequestError")
          /\ resp' = NoResp
          /\ pc' = "opdone"
          /\ UNCHANGED <<requests, openBodies, everOpened>>
       \/ /\ requests' = requests + 1
          /\ opErr' = Err("RequestError")
          /\ resp' = NoResp
          /\ pc' = "opdone"
          /\ UNCHANGED <<buildFailed, openBodies, everOpened>>
       \/ /\ requests' = requests + 1
          /\ \E r \in Responses(Op) : resp' = r
          /\ openBodies' = openBodies \cup {ci}
          /\ everOpened' = [everOpened EXCEPT !.bodies = @ \cup {ci}]
          /\ opErr' = NoErr
          /\ pc' = "resp"
          /\ UNCHANGED buildFailed
    /\ UNCHANGED <<cmd, nargs, apiKey, outputFormat, cfg, apiClient, out, ci,
                   openFiles, result, filename, err, panicked, exitCode, stdout, shown,
                   dest, arg, ret>>

\* The rest of get: the deferred close, the status check, the decoding.
GetReturn ==
    /\ pc = "resp"
    /\ Op # "DownloadDocument"
    /\ IF ~IsSuccess(resp.status)
       THEN /\ \E m \in ErrorMessages(resp.body) : opErr' = APIError(resp.status, m)
            /\ UNCHANGED result
       ELSE IF Scan(resp.body, 1).ok
            THEN opErr' = NoErr /\ result' = Decoded(resp)
            ELSE opErr' = Err("DecodeError") /\ UNCHANGED result
    /\ openBodies' = CloseBody(openBodies, ci)
    /\ pc' = "opdone"
    /\ UNCHANGED <<cmd, nargs, apiKey, outputFormat, cfg, apiClient, out, ci,
                   requests, buildFailed, resp, openFiles, everOpened, filename,
                   err, panicked, exitCode, stdout, shown, dest, arg, ret>>

\* The rest of DownloadDocument.
DownloadReturn ==
    /\ pc = "resp"
    /\ Op = "DownloadDocument"
    /\ IF ~IsSuccess(resp.status)
       THEN /\ opErr' = APIError(resp.status, ReadAll(resp.body, 0))
            /\ openBodies' = CloseBody(openBodies, ci)
            /\ pc' = "opdone"
            /\ UNCHANGED <<filename, panicked, exitCode>>
       ELSE LET p == ParseDisposition(resp.cd) IN
            IF p.panic
            THEN Panic /\ UNCHANGED <<opErr, openBodies, filename>>
            ELSE /\ filename' = p.name
                 /\ opErr' = NoErr
                 /\ pc' = "opdone"
                 /\ UNCHANGED <<openBodies, panicked, exitCode>>
    /\ UNCHANGED <<cmd, nargs, apiKey, outputFormat, cfg, apiClient, out, ci,
                   requests, buildFailed, resp, openFiles, everOpened, result,
                   err, stdout, shown, dest, arg, ret>>


\* A handler whose client call failed returns the wrapped error.
HandlerReturnError ==
    /\ pc = "opdone"
    /\ opErr # NoErr
    /\ err' = opErr
    /\ pc' = "returned"
    /\ UNCHANGED <<cmd, nargs, apiKey, outputFormat, cfg, apiClient, out, ci,
                   requests, buildFailed, resp, openBodies, openFiles, everOpened,
                   opErr, result, filename, panicked, exitCode, stdout, shown, dest,
                   arg, ret>>

\* documents download goes on from GetDocument to DownloadDocument.
NextCall ==
    /\ pc = "opdone"
    /\ opErr = NoErr
    /\ ci < Len(Calls(cmd))
    /\ ci' = ci + 1
    /\ pc' = "run"
    /\ UNCHANGED <<cmd, nargs, apiKey, outputFormat, cfg, apiClient, out,
                   requests, buildFailed, resp, openBodies, openFiles, everOpened,
                   opErr, result, filename, err, panicked, exitCode, stdout, shown, dest,
                   arg, ret>>

\* The rest of the handlers of search, devices list/get, documents list/get.
Render ==
    /\ pc = "opdone"
    /\ opErr = NoErr
    /\ ci = Len(Calls(cmd))
    /\ cmd # "documents download"
    /\ IF IsJSON(out)
       THEN /\ \E written \in BOOLEAN :
                 /\ stdout' = IF written THEN <<"json">> ELSE <<>>
                 /\ err' = IF written THEN NoErr ELSE Err("EncodeError")
            /\ pc' = "returned"
            /\ UNCHANGED <<panicked, exitCode, shown>>
       ELSE LET r == RenderText(cmd, result, outputFormat) IN
            /\ stdout' = r.lines
            /\ shown' = r.shown
            /\ IF r.panic
               THEN Panic /\ UNCHANGED err
               ELSE pc' = "returned" /\ UNCHANGED <<err, panicked, exitCode>>
    /\ UNCHANGED <<cmd, nargs, apiKey, outputFormat, cfg, apiClient, out, ci,
                   requests, buildFailed, resp, openBodies, openFiles, everOpened,
                   opErr, result, filename, dest, arg, ret>>

\* documents download: defer body.Close(), the output path, os.Create.
DownloadCreate ==
    /\ pc = "opdone"
    /\ opErr = NoErr
    /\ ci = Len(Calls(cmd))
    /\ cmd = "documents download"
    /\ \E before \in {"absent", "old"}, created \in BOOLEAN :
         IF created
         THEN /\ dest' = [before |-> before, now |-> "empty"]
              /\ openFiles' = openFiles \cup {"file"}
              /\ everOpened' = [everOpened EXCEPT !.files = @ \cup {"file"}]
              /\ pc' = "copy"
              /\ UNCHANGED <<err, openBodies>>
         ELSE /\ dest' = [before |-> before, now |-> before]
              /\ err' = Err("FilesystemError")
              /\ openBodies' = CloseBody(openBodies, ci)
              /\ pc' = "returned"
              /\ UNCHANGED <<openFiles, everOpened>>
    /\ UNCHANGED <<cmd, nargs, apiKey, outputFormat, cfg, apiClient, out, ci,
                   requests, buildFailed, resp, opErr, result, filename, panicked,
                   exitCode, stdout, shown, arg, ret>>

\* documents download: defer file.Close(), io.Copy, the message, the deferred closes.
DownloadCopy ==
    /\ pc = "copy"
    /\ \E copied \in BOOLEAN :
         IF copied
         THEN /\ dest' = [dest EXCEPT !.now = "complete"]
              /\ stdout' = <<"Downloaded">>
              /\ UNCHANGED err
         ELSE /\ dest' = [dest EXCEPT !.now = "partial"]
              /\ err' = Err("FilesystemError")
              /\ UNCHANGED stdout
    /\ openFiles' = CloseFile(openFiles)
    /\ openBodies' = CloseBody(openBodies, ci)
    /\ pc' = "returned"
    /\ UNCHANGED <<cmd, nargs, apiKey, outputFormat, cfg, apiClient, out, ci,
                   requests, buildFailed, resp, everOpened, opErr, result,
                   filename, panicked, exitCode, shown, arg, ret>>

\* main: Execute has returned.
MainExit ==
    /\ pc = "returned"
    /\ exitCode' = ExitStatus(err)
    /\ pc' = "exited"
    /\ UNCHANGED <<cmd, nargs, apiKey, outputFormat, cfg, apiClient, out, ci,
                   requests, buildFailed, resp, openBodies, openFiles, everOpened,
                   opErr, result, filename, err, panicked, stdout, shown, dest, arg, ret>>

Next ==
    \/ ValidateArgs
    \/ PersistentPreRunE
    \/ VersionRun
    \/ ClientDo
    \/ GetReturn
    \/ DownloadReturn
    \/ HandlerReturnError
    \/ NextCall
    \/ Render
    \/ DownloadCreate
    \/ DownloadCopy
    \/ MainExit

Spec == Init /\ [][Next]_vars


(***************************************************************************)
(* Claims about one invocation (specification Spec).                       *)
(***************************************************************************)
Non2xx(status) == status < 200 \/ status > 299
JSONOps == {"Search", "ListDevices", "GetDevice", "ListDocuments", "GetDocument"}
OpReturned == pc = "opdone" /\ resp.present

\* C1: a JSON-decoding client operation that received a non-2xx response
\* returns an error carrying the status code; its message is m when the body
\* is {"error": m}, and the literal raw body when the body is not valid JSON.
C1_ErrorDecoding ==
    (OpReturned /\ Op \in JSONOps /\ Non2xx(resp.status)) =>
        /\ opErr.kind = "APIError"
        /\ opErr.status = resp.status
        /\ \A m \in Msgs : resp.body = ErrorBody(m) => opErr.msg = <<m>>
        /\ ~Scan(resp.body, 1).ok => opErr.msg = resp.body

\* C3: a client operation that received a response returns an APIError if
\* and only if the status is not 2xx, and the APIError carries that status.
C3_APIErrorIffNon2xx ==
    OpReturned =>
        /\ opErr.kind = "APIError" <=> Non2xx(resp.status)
        /\ opErr.kind = "APIError" => opErr.status = resp.status

\* A header of the form attachment; filename="<name>".
WellFormed(h) ==
    /\ Len(h) >= PrefixLen + 2
    /\ SubSeq(h, 1, PrefixLen) = AttachmentPrefix
    /\ h[PrefixLen + 1] = "\""
    /\ h[Len(h)] = "\""
    /\ \A i \in (PrefixLen + 2)..(Len(h) - 1) : h[i] # "\""

DownloadActed ==
    /\ cmd = "documents download"
    /\ ci = 2
    /\ resp.present
    /\ resp.status = StatusOK
    /\ pc # "resp"

\* C4: for every 200 download response DownloadDocument returns normally
\* with the stream open, and the suggested filename is <name> for a header
\* attachment; filename="<name>" and empty for an absent or malformed one.
C4_SuggestedFilename ==
    DownloadActed =>
        /\ ~panicked
        /\ pc = "opdone" => ci \in openBodies /\ opErr = NoErr
        /\ filename = IF WellFormed(resp.cd)
                      THEN SubSeq(resp.cd, PrefixLen + 2, Len(resp.cd) - 1)
                      ELSE <<>>

\* C5: when the command has returned, every response body and every file
\* handle that was opened is closed; a JSON-decoding operation, and a
\* DownloadDocument that returns an error, has closed its body on return.
\* (A panic ends the process without the command returning.)
C5_Released ==
    /\ (pc = "returned" \/ (pc = "exited" /\ ~panicked)) =>
          openBodies = {} /\ openFiles = {}
    /\ (pc = "opdone" /\ (Op \in JSONOps \/ opErr # NoErr)) => openBodies = {}

C5_Witness ==
    /\ pc = "returned"
    /\ everOpened = [bodies |-> {1, 2}, files |-> {"file"}]
    /\ err.kind = "FilesystemError"

APICommands == Commands \ {"version"}

\* C6 as first stated: every invocation whose handler ran (and could build
\* its request) has sent exactly one HTTP request when it exits, and output
\* is printed only after that single call.
C6_ExactlyOneCall ==
    /\ (pc = "exited" /\ cmd \in APICommands /\ apiClient.built /\ ~buildFailed
          /\ ~panicked) => requests = 1
    /\ (cmd \in APICommands /\ stdout # <<>>) => requests = 1 /\ pc # "resp"

\* C6: every command but documents download sends at most one HTTP request,
\* and exactly one when PersistentPreRunE succeeded and the request could be
\* built; documents download sends at most two, the second only after
\* GetDocument succeeded, and exactly two when it succeeds; version sends
\* none.  Output is printed only after the last call has completed.
C6_CallsPerCommand ==
    /\ cmd = "version" => requests = 0
    /\ (cmd \in APICommands /\ cmd # "documents download") =>
          /\ requests <= 1
          /\ (pc = "exited" /\ apiClient.built /\ ~buildFailed) => requests = 1
    /\ cmd = "documents download" =>
          /\ requests <= 2
          /\ requests = 2 => ci = 2
          /\ ci = 2 => requests >= 1
          /\ (pc = "exited" /\ exitCode = 0) => requests = 2
    /\ (cmd \in APICommands /\ stdout # <<>>) =>
          /\ requests = (IF cmd = "documents download" THEN 2 ELSE 1)
          /\ pc \in {"returned", "exited"}

C6_Witness ==
    /\ pc = "exited"
    /\ cmd = "documents download"
    /\ requests = 2
    /\ stdout = <<"Downloaded">>

\* C7: with an empty effective API key (the flag when non-empty, else the
\* configured one) a command other than version fails with a validation
\* error before any request is sent and before the client and the renderer
\* are built; a request is only ever sent after Validate succeeded.
C7_ValidationFirst ==
    /\ (cfg.loaded /\ apiKey # "") => cfg.APIKey = apiKey
    /\ (cmd # "version" /\ cfg.loaded /\ cfg.APIKey = "") =>
          /\ requests = 0
          /\ ~apiClient.built
          /\ ~out.built
          /\ pc \in {"returned", "exited"}
          /\ err.kind = "ValidationError"
          /\ pc = "exited" => exitCode = 1
    /\ (requests > 0 \/ pc \in {"run", "resp", "opdone", "copy"}) =>
          cmd = "version" \/ (cfg.loaded /\ cfg.APIKey # "" /\ apiClient.built)

C7_Witness ==
    /\ pc = "exited"
    /\ cmd = "documents download"
    /\ nargs = 1
    /\ cfg.loaded
    /\ cfg.APIKey = ""
    /\ exitCode = 1

\* C10: an invocation exits with 0 when the command succeeded and with 1
\* when any error occurred; no other exit status is produced.
C10_ExitCodes ==
    pc = "exited" =>
        /\ exitCode \in {0, 1}
        /\ exitCode = 0 <=> err = NoErr

\* C11: when documents download returns an error at any step, the file at
\* the destination path has the same existence and content as before the
\* command ran; no partial or truncated file is left behind.
C11_DestinationUnchanged ==
    (cmd = "documents download" /\ pc \in {"returned", "exited"} /\ err # NoErr)
        => dest.now = dest.before

\* A handler has rendered, in a non-JSON mode, the value decoded from its 200
\* response (or has panicked doing so).
Rendered ==
    /\ pc \in {"returned", "exited"}
    /\ requests = 1
    /\ opErr = NoErr
    /\ ~IsJSON(out)

\* C12: for every 200 response that decodes, non-JSON rendering in search,
\* devices list, documents list and documents get completes without a
\* runtime fault whatever the lengths: each ID cell holds the first 8
\* characters of the identifier (all of it when shorter), and documents get
\* shows the first 16 characters of the checksum (all of it when shorter).
C12_RenderingTotal ==
    /\ (Rendered /\ cmd \in {"search", "devices list", "documents list"}) =>
          /\ ~panicked
          /\ shown.ids = [i \in DOMAIN result.ids |-> Min(result.ids[i], IDColumn)]
    /\ (Rendered /\ cmd = "documents get") =>
          /\ ~panicked
          /\ shown.checksum = Min(result.checksum, ChecksumShown)

\* C13: in devices list and documents list, non-JSON mode and a non-empty
\* page, the hint "Use --offset N to see more results." is printed if and
\* only if results remain beyond the page, Offset + len(Data) < Total, and
\* then N = Offset + len(Data); the last page of a multi-page result has no
\* hint.
C13_OffsetHint ==
    (/\ Rendered
     /\ cmd \in {"devices list", "documents list"}
     /\ Len(result.ids) > 0
     /\ ~panicked) =>
        LET n == result.offset + Len(result.ids) IN
        /\ shown.hint # -1 <=> n < result.total
        /\ n < result.total => shown.hint = n

\* What search prints for a response when its output is decided by the
\* renderer's effective format alone, the snippets section going with text.
SearchOutput(format, r) ==
    CASE format = "json" -> <<"json">>
      [] Len(r.ids) = 0 -> <<"No results found.">>
      [] OTHER -> <<"Found", "table">> \o
                  (IF format = "text" THEN <<"--- Snippets ---">> ELSE <<>>)

\* C14: the output of search depends only on the renderer's effective format
\* (Writer.Format()) and the response, wherever that format came from (the
\* -o flag, the config file or environment, the fallback for an unrecognized
\* value, a different letter case); the "--- Snippets ---" section is
\* printed exactly when the effective format is text, never when it is table.
C14_EffectiveFormatDecides ==
    (/\ cmd = "search"
     /\ pc \in {"returned", "exited"}
     /\ requests = 1
     /\ opErr = NoErr
     /\ err = NoErr
     /\ ~panicked) =>
        stdout = SearchOutput(out.format, result)


(***************************************************************************)
(* The pure helpers, each applied once to an input drawn from a bounded    *)
(* set.  The invocation's variables rest.                                  *)
(***************************************************************************)
CliIdle ==
    /\ cmd = "version"
    /\ apiKey = ""
    /\ outputFormat = ""
    /\ nargs = 0
    /\ pc = "idle"
    /\ cfg = NoConfig
    /\ apiClient = NoClient
    /\ out = NoWriter
    /\ ci = 1
    /\ requests = 0
    /\ buildFailed = FALSE
    /\ resp = NoResp
    /\ openBodies = {}
    /\ openFiles = {}
    /\ everOpened = [bodies |-> {}, files |-> {}]
    /\ opErr = NoErr
    /\ result = ZeroResult
    /\ filename = <<>>
    /\ err = NoErr
    /\ panicked = FALSE
    /\ exitCode = -1
    /\ stdout = <<>>
    /\ shown = NoShown
    /\ dest = [before |-> "unknown", now |-> "unknown"]

Ellipsis == <<".", ".", ".">>

TruncateStrict(s, maxLen) ==
    IF Len(s) <= maxLen THEN s
    ELSE IF maxLen < 3 THEN SubSeq(s, 1, maxLen)
    ELSE SubSeq(s, 1, maxLen - 3) \o Ellipsis

\* output.Truncate, for maxLen >= 0 (a negative maxLen panics in s[:maxLen]).
Truncate(s, maxLen) ==
    IF Len(s) <= maxLen THEN s
    ELSE IF maxLen <= 3 THEN SubSeq(s, 1, maxLen)
    ELSE SubSeq(s, 1, maxLen - 3) \o Ellipsis

TruncChars == {"a", "."}

TruncateInit ==
    /\ CliIdle
    /\ arg \in [s : SeqsUpTo(TruncChars, MaxStrLen), n : 0..MaxTruncLen]
    /\ ret = [done |-> FALSE, v |-> <<>>]

ApplyTruncate ==
    /\ ~ret.done
    /\ ret' = [done |-> TRUE, v |-> Truncate(arg.s, arg.n)]
    /\ UNCHANGED <<arg, cliVars>>

SpecTruncate == TruncateInit /\ [][ApplyTruncate]_vars

\* C8: for n >= 0 the result of Truncate(s, n) is no longer than n; it is s
\* when len(s) <= n; the first n characters of s, without ellipsis, when
\* n <= 3 and len(s) > n; and the first n-3 characters of s followed
\* by "...", of length exactly n, when n > 3 and len(s) > n.
C8_Truncate ==
    ret.done =>
        LET s == arg.s
            n == arg.n
            r == ret.v
        IN  /\ Len(r) <= n
            /\ Len(s) <= n => r = s
            /\ (n <= 3 /\ Len(s) > n) =>
                  Len(r) = n /\ \A i \in 1..n : r[i] = s[i]
            /\ (n > 3 /\ Len(s) > n) =>
                  /\ Len(r) = n
                  /\ \A i \in 1..(n - 3) : r[i] = s[i]
                  /\ \A i \in (n - 2)..n : r[i] = "."

C8_Witness ==
    /\ ret.done
    /\ arg.n = 4
    /\ arg.s = <<"a", "a", "a", "a", "a">>
    /\ ret.v = <<"a", ".", ".", ".">>


(***************************************************************************)
(* Query-string construction in ListDevices and ListDocuments.  A request  *)
(* path is a sequence of tokens: the resource, "?", "&", "=", a key name,  *)
(* and the characters of a value.                                          *)
(***************************************************************************)
DigitChars == <<"0", "1", "2", "3", "4", "5", "6", "7", "8", "9">>

RECURSIVE Digits(_)
Digits(n) ==
    IF n < 10 THEN <<DigitChars[n + 1]>>
    ELSE Digits(n \div 10) \o <<DigitChars[(n % 10) + 1]>>

\* fmt.Sprintf("%d", n)
Sprintf(n) == IF n < 0 THEN <<"-">> \o Digits(-n) ELSE Digits(n)

\* url.QueryEscape on the characters of the model's values.
EscapeChar(c) ==
    CASE c = " " -> <<"+">>
      [] c = "&" -> <<"%", "2", "6">>
      [] OTHER -> <<c>>

RECURSIVE QueryEscape(_)
QueryEscape(v) ==
    IF v = <<>> THEN <<>> ELSE EscapeChar(Head(v)) \o QueryEscape(Tail(v))

\* url.Values{} and params.Set(key, value)
NoParams == [k \in {} |-> <<>>]
Set(params, key, value) ==
    [k \in DOMAIN params \cup {key} |-> IF k = key THEN value ELSE params[k]]

\* The byte-wise order of the keys the client sets: Encode sorts by key.
KeyOrder == <<"device_id", "domain", "limit", "offset", "q", "type">>

\* url.Values.Encode: key=value pairs, sorted by key, joined with "&".
RECURSIVE EncodeFrom(_, _)
EncodeFrom(params, i) ==
    IF i > Len(KeyOrder) THEN <<>>
    ELSE LET k == KeyOrder[i]
             rest == EncodeFrom(params, i + 1)
         IN  IF k \in DOMAIN params
             THEN <<k, "=">> \o QueryEscape(params[k]) \o
                  (IF rest = <<>> THEN <<>> ELSE <<"&">> \o rest)
             ELSE rest

Encode(params) == EncodeFrom(params, 1)

ListDevicesSendsZero(limit, offset, domain, deviceType) ==
    LET p1 == IF limit >= 0 THEN Set(NoParams, "limit", Sprintf(limit)) ELSE NoParams
        p2 == IF offset > 0 THEN Set(p1, "offset", Sprintf(offset)) ELSE p1
        p3 == IF domain # <<>> THEN Set(p2, "domain", domain) ELSE p2
        p4 == IF deviceType # <<>> THEN Set(p3, "type", deviceType) ELSE p3
    IN  <<"/devices">> \o
        (IF Cardinality(DOMAIN p4) > 0 THEN <<"?">> \o Encode(p4) ELSE <<>>)

\* The path Client.ListDevices requests.
ListDevices(limit, offset, domain, deviceType) ==
    LET p1 == IF limit > 0 THEN Set(NoParams, "limit", Sprintf(limit)) ELSE NoParams
        p2 == IF offset > 0 THEN Set(p1, "offset", Sprintf(offset)) ELSE p1
        p3 == IF domain # <<>> THEN Set(p2, "domain", domain) ELSE p2
        p4 == IF deviceType # <<>> THEN Set(p3, "type", deviceType) ELSE p3
    IN  <<"/devices">> \o
        (IF Cardinality(DOMAIN p4) > 0 THEN <<"?">> \o Encode(p4) ELSE <<>>)

\* The path Client.ListDocuments requests.
ListDocuments(limit, offset, deviceID) ==
    LET p1 == IF limit > 0 THEN Set(NoParams, "limit", Sprintf(limit)) ELSE NoParams
        p2 == IF offset > 0 THEN Set(p1, "offset", Sprintf(offset)) ELSE p1
        p3 == IF deviceID # <<>> THEN Set(p2, "device_id", deviceID) ELSE p2
    IN  <<"/documents">> \o
        (IF Cardinality(DOMAIN p3) > 0 THEN <<"?">> \o Encode(p3) ELSE <<>>)

Hardware == <<"h", "a", "r", "d", "w", "a", "r", "e">>
QueryInts == {-1, 0, 10, 20}
QueryStrings == {<<>>, Hardware, <<"a", " ", "b">>}

QueryInit ==
    /\ CliIdle
    /\ arg \in [op : {"ListDevices"}, limit : QueryInts, offset : QueryInts,
                a : QueryStrings, b : QueryStrings]
               \cup
               [op : {"ListDocuments"}, limit : QueryInts, offset : QueryInts,
                a : QueryStrings, b : {<<>>}]
    /\ ret = [done |-> FALSE, path |-> <<>>]

ApplyListDevices ==
    /\ ~ret.done
    /\ arg.op = "ListDevices"
    /\ ret' = [done |-> TRUE,
               path |-> ListDevices(arg.limit, arg.offset, arg.a, arg.b)]
    /\ UNCHANGED <<arg, cliVars>>

ApplyListDocuments ==
    /\ ~ret.done
    /\ arg.op = "ListDocuments"
    /\ ret' = [done |-> TRUE, path |-> ListDocuments(arg.limit, arg.offset, arg.a)]
    /\ UNCHANGED <<arg, cliVars>>

QueryNext == ApplyListDevices \/ ApplyListDocuments

SpecQuery == QueryInit /\ [][QueryNext]_vars

\* The key names of a path, in the order they are written.
KeyNames == {"limit", "offset", "domain", "type", "device_id"}
IsKey(tok) == tok \in KeyNames
KeysOf(path) == SelectSeq(path, IsKey)

\* The third key of the operation: domain or device_id.
FilterKey == IF arg.op = "ListDevices" THEN "domain" ELSE "device_id"

NonZero(k) ==
    CASE k = "limit" -> arg.limit # 0
      [] k = "offset" -> arg.offset # 0
      [] k = "type" -> arg.b # <<>>
      [] OTHER -> arg.a # <<>>

Positive(k) ==
    CASE k = "limit" -> arg.limit > 0
      [] k = "offset" -> arg.offset > 0
      [] k = "type" -> arg.b # <<>>
      [] OTHER -> arg.a # <<>>

IsExample == arg = [op |-> "ListDevices", limit |-> 10, offset |-> 20,
                    a |-> Hardware, b |-> <<>>]

\* C2 as first stated, for limit and offset that are not negative: the query
\* holds exactly the parameters whose value is non-zero / non-empty, written
\* in the order limit, offset, domain (device_id), type;
\* ListDevices(10, 20, "hardware", "") requests
\* limit=10&offset=20&domain=hardware.
C2_ClaimedOrder ==
    (ret.done /\ arg.limit >= 0 /\ arg.offset >= 0) =>
        /\ KeysOf(ret.path) =
              SelectSeq(<<"limit", "offset", FilterKey, "type">>, NonZero)
        /\ IsExample =>
              ret.path = <<"/devices", "?", "limit", "=", "1", "0", "&",
                           "offset", "=", "2", "0", "&", "domain", "=">> \o Hardware

\* C2: the query holds exactly the parameters whose value is positive
\* (limit, offset) or non-empty (domain, type, device_id), each once, as
\* key=value with the value query-escaped, sorted by key: domain, limit,
\* offset, type for ListDevices and device_id, limit, offset for
\* ListDocuments; with no parameter the path has no "?".
\* ListDevices(0, 0, "", "") requests /devices and
\* ListDevices(10, 20, "hardware", "") domain=hardware&limit=10&offset=20.
C2_SortedQuery ==
    ret.done =>
        LET keys == SelectSeq(<<FilterKey, "limit", "offset", "type">>, Positive)
            marks == SelectSeq(ret.path, LAMBDA t : t = "?")
            amps == SelectSeq(ret.path, LAMBDA t : t = "&")
            eqs == SelectSeq(ret.path, LAMBDA t : t = "=")
        IN  /\ KeysOf(ret.path) = keys
            /\ Len(marks) = (IF keys = <<>> THEN 0 ELSE 1)
            /\ Len(eqs) = Len(keys)
            /\ Len(amps) = (IF keys = <<>> THEN 0 ELSE Len(keys) - 1)
            /\ keys = <<>> =>
                  ret.path = <<IF arg.op = "ListDevices" THEN "/devices"
                                ELSE "/documents">>
            /\ \A i \in 1..(Len(ret.path) - 1) :
                  ret.path[i] = "=" => ret.path[i + 1] \notin {"&", "0", "-", " "}
            /\ ret.path[Len(ret.path)] # "="
            /\ \A i \in DOMAIN ret.path : ret.path[i] # " "
            /\ arg.a = <<"a", " ", "b">> =>
                  \E i \in 1..(Len(ret.path) - 4) :
                      SubSeq(ret.path, i, i + 4) = <<FilterKey, "=", "a", "+", "b">>
            /\ IsExample =>
                  ret.path = <<"/devices", "?", "domain", "=">> \o Hardware \o
                             <<"&", "limit", "=", "1", "0", "&",
                               "offset", "=", "2", "0">>

C2_Witness ==
    /\ ret.done
    /\ IsExample
    /\ Len(ret.path) = 22


(***************************************************************************)
(* FormatSize.  An int64 is a sign and NumLimbs base-1024 digits, lowest   *)
(* first (the model checker's integers are 32 bits wide); the top digit of *)
(* an int64 is at most 7.                                                  *)
(***************************************************************************)
NumLimbs == 7
MantissaBits == 53          \* float64(bytes) keeps 53 significant bits
UnitSymbols == <<"K", "M", "G", "T", "P", "E">>

IsZero(l) == \A i \in DOMAIN l : l[i] = 0
\* The index of the highest non-zero digit (0 for zero).
TopLimb(l) == IF IsZero(l) THEN 0
              ELSE CHOOSE i \in DOMAIN l : l[i] # 0 /\ \A j \in DOMAIN l : j > i => l[j] = 0

\* bytes < unit
LtUnit(b) == b.neg \/ TopLimb(b.limbs) <= 1

\* n / unit and n /= unit
DivUnit(l) == Tail(l) \o <<0>>

GtUnit(l) == TopLimb(l) >= 3 \/ l[2] > 1 \/ (l[2] = 1 /\ l[1] > 0)

\* n >= unit
GeUnit(l) == TopLimb(l) >= 2

\* for n := bytes / unit; n >= unit; n /= unit { div *= unit; exp++ }
RECURSIVE SizeLoop(_, _)
SizeLoop(n, exp) == IF GeUnit(n) THEN SizeLoop(DivUnit(n), exp + 1) ELSE exp

\* The decimal digits of a non-negative value ("%d").
RECURSIVE DivTen(_, _, _)
DivTen(l, i, rem) ==
    IF i = 0 THEN [q |-> l, r |-> rem]
    ELSE LET cur == rem * unit + l[i] IN
         DivTen([l EXCEPT ![i] = cur \div 10], i - 1, cur % 10)

RECURSIVE BigDigits(_)
BigDigits(l) ==
    LET d == DivTen(l, Len(l), 0) IN
    IF IsZero(d.q) THEN <<DigitChars[d.r + 1]>>
    ELSE BigDigits(d.q) \o <<DigitChars[d.r + 1]>>

RECURSIVE BitLen(_)
BitLen(x) == IF x = 0 THEN 0 ELSE 1 + BitLen(x \div 2)

RECURSIVE Pow2(_)
Pow2(d) == IF d = 0 THEN 1 ELSE 2 * Pow2(d - 1)

\* l + v * unit^(i-1), carrying; the top digit may reach 8 (2^63 as a float).
RECURSIVE AddAt(_, _, _)
AddAt(l, i, v) ==
    LET sum == l[i] + v IN
    IF sum >= unit /\ i < Len(l)
    THEN AddAt([l EXCEPT ![i] = sum - unit], i + 1, 1)
    ELSE [l EXCEPT ![i] = sum]

\* float64(bytes) for bytes >= unit: rounded to 53 significant bits, ties to
\* even.  At most 10 bits are dropped, all of them in the lowest digit.
Float64(l) ==
    LET top == TopLimb(l)
        bits == 10 * (top - 1) + BitLen(l[top])
    IN  IF bits <= MantissaBits THEN l
        ELSE LET d == bits - MantissaBits
                 p == Pow2(d)
                 q == l[1] \div p
                 r == l[1] % p
                 odd == IF d < 10 THEN q % 2 = 1 ELSE l[2] % 2 = 1
                 up == r > p \div 2 \/ (r = p \div 2 /\ odd)
                 base == [l EXCEPT ![1] = q * p]
             IN  IF up THEN AddAt(base, 1, p) ELSE base

\* The integer part of f / unit^(i-1).
RECURSIVE IntPart(_, _)
IntPart(f, i) ==
    IF i > Len(f) THEN 0 ELSE f[i] + unit * IntPart(f, i + 1)

\* Ten times the fraction of f / unit^k: its digits, and what it carries
\* into the integer part.
RECURSIVE TimesTen(_, _, _, _)
TimesTen(f, k, i, carry) ==
    IF i > k THEN [limbs |-> SubSeq(f, 1, k), carry |-> carry]
    ELSE LET v == 10 * f[i] + carry IN
         TimesTen([f EXCEPT ![i] = v % unit], k, i + 1, v \div unit)

\* "%.1f" of f / unit^k, as a number of tenths: the exact value rounded to
\* one decimal, ties to even.
Tenths(f, k) ==
    LET t == TimesTen(f, k, 1, 0)
        floor == 10 * IntPart(f, k + 1) + t.carry
        half == unit \div 2
        low == \E i \in 1..(k - 1) : t.limbs[i] # 0
        up == \/ t.limbs[k] > half
              \/ t.limbs[k] = half /\ (low \/ floor % 2 = 1)
    IN  IF up THEN floor + 1 ELSE floor

\* output.FormatSize: the text it returns, as a sequence of characters
\* (a panic when the index into "KMGTPE" is out of range).
FormatSize(b) ==
    IF LtUnit(b)
    THEN (IF b.neg THEN <<"-">> ELSE <<>>) \o BigDigits(b.limbs) \o <<" ", "B">>
    ELSE LET exp == SizeLoop(DivUnit(b.limbs), 0)
             t == Tenths(Float64(b.limbs), exp + 1)
         IN  IF exp + 1 > Len(UnitSymbols) THEN <<"panic">>
             ELSE Digits(t \div 10) \o <<".">> \o Digits(t % 10) \o
                  <<" ", UnitSymbols[exp + 1], "B">>

LowLimbs == {0, 1, 256, 512, 1023}
HighLimbs == {0, 1, 1023}
TopLimbs == {0, 1, 7}
SizeInputs ==
    {[neg |-> FALSE, limbs |-> lo \o hi \o <<t>>] :
        lo \in [1..2 -> LowLimbs], hi \in [1..(NumLimbs - 3) -> HighLimbs],
        t \in TopLimbs}
    \cup
    {[neg |-> TRUE, limbs |-> lo \o [i \in 1..(NumLimbs - 2) |-> 0]] :
        lo \in [1..2 -> LowLimbs] \ {<<0, 0>>}}

SizeInit ==
    /\ CliIdle
    /\ arg \in SizeInputs
    /\ ret = [done |-> FALSE, text |-> <<>>]

ApplyFormatSize ==
    /\ ~ret.done
    /\ ret' = [done |-> TRUE, text |-> FormatSize(arg)]
    /\ UNCHANGED <<arg, cliVars>>

SpecFormatSize == SizeInit /\ [][ApplyFormatSize]_vars


RECURSIVE Value(_)
Value(digits) ==
    IF digits = <<>> THEN 0
    ELSE 10 * Value(SubSeq(digits, 1, Len(digits) - 1)) +
         (CHOOSE d \in 0..9 : DigitChars[d + 1] = digits[Len(digits)])

\* The number FormatSize displays before the unit, in tenths.
Displayed(text) ==
    LET dot == CHOOSE i \in DOMAIN text : text[i] = "." IN
    10 * Value(SubSeq(text, 1, dot - 1)) + Value(<<text[dot + 1]>>)

Bytes(l0, l1, l2) ==
    [neg |-> FALSE, limbs |-> <<l0, l1, l2>> \o [i \in 1..(NumLimbs - 3) |-> 0]]

SizeExamples ==
    /\ arg = Bytes(0, 0, 0) => ret.text = <<"0", " ", "B">>
    /\ arg = Bytes(1023, 0, 0) => ret.text = <<"1", "0", "2", "3", " ", "B">>
    /\ arg = Bytes(0, 1, 0) => ret.text = <<"1", ".", "0", " ", "K", "B">>
    /\ arg = Bytes(512, 1, 0) => ret.text = <<"1", ".", "5", " ", "K", "B">>
    /\ arg = Bytes(0, 0, 1) => ret.text = <<"1", ".", "0", " ", "M", "B">>

\* The unit symbol and the shape of the text for bytes >= 1024: the k-th of
\* K,M,G,T,P,E where 1024^k <= bytes < 1024^(k+1), i.e. k + 1 is the index
\* of the highest non-zero base-1024 digit.
SizeUnit ==
    (~arg.neg /\ TopLimb(arg.limbs) >= 2) =>
        LET k == TopLimb(arg.limbs) - 1
            n == Len(ret.text)
        IN  /\ ret.text # <<"panic">>
            /\ k \in 1..6
            /\ n >= 6
            /\ ret.text[n] = "B"
            /\ ret.text[n - 1] = UnitSymbols[k]
            /\ ret.text[n - 2] = " "
            /\ ret.text[n - 4] = "."

\* C9 as first stated: for bytes >= 1024 the displayed quotient is at least
\* 1 and below 1024 (with the unit, the in-range index and the examples).
C9_DisplayedBelow1024 ==
    ret.done =>
        /\ SizeExamples
        /\ SizeUnit
        /\ (~arg.neg /\ TopLimb(arg.limbs) >= 2) =>
              Displayed(ret.text) >= 10 /\ Displayed(ret.text) < 10 * unit

\* C9: for 0 <= bytes < 1024 the result is "<bytes> B"; for bytes >= 1024
\* the unit symbol is the k-th of K,M,G,T,P,E with
\* 1024^k <= bytes < 1024^(k+1), the index never leaves the six symbols for
\* any int64, the quotient bytes/1024^k is at least 1 and below 1024, and
\* the number displayed, that quotient rounded to one decimal, is between
\* 1.0 and 1024.0 inclusive: its integer part is the quotient's or one more.
\* FormatSize(0) = "0 B", (1023) = "1023 B", (1024) = "1.0 KB",
\* (1536) = "1.5 KB", (1048576) = "1.0 MB".
C9_FormatSize ==
    ret.done =>
        /\ SizeExamples
        /\ SizeUnit
        /\ (~arg.neg /\ TopLimb(arg.limbs) <= 1) =>
              ret.text = Digits(arg.limbs[1]) \o <<" ", "B">>
        /\ (~arg.neg /\ TopLimb(arg.limbs) >= 2) =>
              LET q == arg.limbs[TopLimb(arg.limbs)]
                  d == Displayed(ret.text)
              IN  /\ q >= 1 /\ q < unit
                  /\ d >= 10 /\ d <= 10 * unit
                  /\ d \div 10 \in {q, q + 1}

C9_Witness ==
    /\ ret.done
    /\ arg = [neg |-> FALSE, limbs |-> <<1023, 1023, 1023, 1023, 1023, 1023, 7>>]
    /\ ret.text = <<"8", ".", "0", " ", "E", "B">>

====
